---- MODULE Spec2Model ----
(***************************************************************************)
(* Model of the risk-computation core of seismic_risk_monitor.py:          *)
(* perform_risk_analysis (filter, project, buffer, antimeridian fix,       *)
(* reproject, spatial join) and handle_antimeridian_buffers.               *)
(*                                                                         *)
(* Geometry is sampled on an integer grid.  Every decision of              *)
(* handle_antimeridian_buffers depends on the x extent only: its clipping  *)
(* boxes span every y (large_y) and translate() shifts x only.  A geometry *)
(* is therefore the set of grid abscissae it covers on the parallel of the *)
(* inputs; a closed interval is the integer range lo..hi, end points       *)
(* included.  Longitudes are counted in quarter turns (HalfLon = 180       *)
(* degrees); one grid unit of the projected axis is 500 metres of the      *)
(* scaled world.                                                           *)
(***************************************************************************)
EXTENDS Integers, Sequences, FiniteSets

\* ------------------------------------------------------------------ bounds
MaxEvents == 2
MaxPlaces == 2
HalfLon == 2
MaxRadius == 5

Lons == (-HalfLon)..HalfLon
Magnitudes == {5, 6}
MinMagnitudes == {5, 6, 7}
RadiiKm == (-1)..MaxRadius

\* ------------------------------------------------------- projection (3857)
\* x = R * lon_rad, linear in the longitude: GridPerLon grid units per
\* longitude unit.
GridPerLon == 5

toProjected(lon) == lon * GridPerLon

\* The exact half width of the projected world, pi * R = 20037508.3427...
TrueHalfWidth == toProjected(HalfLon)

\* MERCATOR_WORLD_MAX_X = 20037508.34 is the half width cut off after the
\* second decimal, strictly below pi * R; on the grid the cut is one unit.
MERCATOR_WORLD_MAX_X == TrueHalfWidth - 1
MERCATOR_WORLD_MIN_X == -(TrueHalfWidth - 1)
MERCATOR_WIDTH == MERCATOR_WORLD_MAX_X - MERCATOR_WORLD_MIN_X

\* to_crs(epsg=4326) of a geometry, sampled at the longitudes of the grid:
\* a longitude belongs to the result when its projection is covered.
toGeographic(geom) == {lon \in Lons : toProjected(lon) \in geom}

\* ------------------------------------------------------------ shapely ops
Min(S) == CHOOSE x \in S : \A y \in S : x <= y
Max(S) == CHOOSE x \in S : \A y \in S : x >= y

\* geom.bounds of a non-empty geometry (the x components).
bounds(geom) == [minx |-> Min(geom), maxx |-> Max(geom)]

\* box(minx, -large_y, maxx, large_y): closed, spans every y.
box(lo, hi) == lo..hi

intersection(geom, other) == geom \cap other

translate(geom, xoff) == {x + xoff : x \in geom}

unary_union(parts) == UNION parts

\* radius_km * 1000 metres, in grid units of 500 metres.
BufferDistance(radius) == (radius * 1000) \div 500

\* GeoSeries.buffer(distance) of point geometries: the closed disc around
\* each point; a distance <= 0 gives the empty polygon.
buffer(geom, distance) ==
    IF distance <= 0 THEN {}
    ELSE UNION {(c - distance)..(c + distance) : c \in geom}

\* -------------------------------------------- handle_antimeridian_buffers
EastCorrect(geom) ==
    LET inside_box == box(MERCATOR_WORLD_MIN_X, MERCATOR_WORLD_MAX_X)
        part_main == intersection(geom, inside_box)
        overflow_box == box(MERCATOR_WORLD_MAX_X, bounds(geom).maxx + 1)
        part_overflow == intersection(geom, overflow_box)
        part_shifted == translate(part_overflow, -MERCATOR_WIDTH)
    IN unary_union({part_main, part_shifted})

WestCorrectSameShift(geom) ==
    LET inside_box == box(MERCATOR_WORLD_MIN_X, MERCATOR_WORLD_MAX_X)
        part_main == intersection(geom, inside_box)
        overflow_box == box(bounds(geom).minx - 1, MERCATOR_WORLD_MIN_X)
        part_overflow == intersection(geom, overflow_box)
        part_shifted == translate(part_overflow, -MERCATOR_WIDTH)
    IN unary_union({part_main, part_shifted})

WestCorrect(geom) ==
    LET inside_box == box(MERCATOR_WORLD_MIN_X, MERCATOR_WORLD_MAX_X)
        part_main == intersection(geom, inside_box)
        overflow_box == box(bounds(geom).minx - 1, MERCATOR_WORLD_MIN_X)
        part_overflow == intersection(geom, overflow_box)
        part_shifted == translate(part_overflow, MERCATOR_WIDTH)
    IN unary_union({part_main, part_shifted})

correct_one_inclusive(geom) ==
    IF geom = {} THEN geom
    ELSE IF bounds(geom).maxx >= MERCATOR_WORLD_MAX_X THEN EastCorrect(geom)
    ELSE IF bounds(geom).minx <= MERCATOR_WORLD_MIN_X THEN WestCorrect(geom)
    ELSE geom

\* The body of the loop.  The bounds of an empty geometry are NaN, every
\* comparison with them is false and the else branch keeps the geometry.
correct_one(geom) ==
    IF geom = {} THEN geom
    ELSE IF bounds(geom).maxx > MERCATOR_WORLD_MAX_X THEN EastCorrect(geom)
    ELSE IF bounds(geom).minx < MERCATOR_WORLD_MIN_X THEN WestCorrect(geom)
    ELSE geom

RECURSIVE append_loop(_, _, _)
append_loop(geoms, i, corrected_geoms) ==
    IF i > Len(geoms) THEN corrected_geoms
    ELSE append_loop(geoms, i + 1, Append(corrected_geoms, correct_one(geoms[i])))

RECURSIVE append_loop_changed_first(_, _, _)
append_loop_changed_first(geoms, i, corrected_geoms) ==
    IF i > Len(geoms) THEN corrected_geoms
    ELSE append_loop_changed_first(geoms, i + 1,
            IF correct_one(geoms[i]) = geoms[i]
            THEN Append(corrected_geoms, geoms[i])
            ELSE <<correct_one(geoms[i])>> \o corrected_geoms)

handle_antimeridian_buffers_reordered(geoms) ==
    append_loop_changed_first(geoms, 1, <<>>)

handle_antimeridian_buffers(geoms) == append_loop(geoms, 1, <<>>)

\* ---------------------------------------------------- perform_risk_analysis
InputsUnavailableQuakesOnly(quakes, cities) == quakes = <<>>

InputsUnavailable(quakes, cities) == quakes = <<>> \/ cities = <<>>

QualifiesStrict(mag, threshold) == mag > threshold

Qualifies(mag, threshold) == mag >= threshold

\* quakes_gdf[quakes_gdf['mag'] >= min_mag].copy(): the rows keep their
\* index (idx) and their attributes; the geometry is the epicentre.
RECURSIVE FilterRows(_, _, _)
FilterRows(quakes, threshold, i) ==
    IF i > Len(quakes) THEN <<>>
    ELSE (IF Qualifies(quakes[i].mag, threshold)
          THEN <<[idx |-> i, title |-> quakes[i].title, mag |-> quakes[i].mag,
                  geometry |-> {quakes[i].lon}]>>
          ELSE <<>>) \o FilterRows(quakes, threshold, i + 1)

\* frame['geometry'] = values: positional assignment of a geometry column.
SetGeometry(rows, geoms) ==
    [k \in 1..Len(rows) |-> [rows[k] EXCEPT !.geometry = geoms[k]]]

GeometryColumn(rows) == [k \in 1..Len(rows) |-> rows[k].geometry]

\* predicate="intersects" of a city point and a zone (boundary included).
intersects(city, zone) == city.lon \in zone.geometry

JoinedRow(city, zone) ==
    [name |-> city.name, lon |-> city.lon, index_right |-> zone.idx,
     Quake_Magnitude |-> zone.mag, title |-> zone.title]

RECURSIVE MatchesOf(_, _, _)
MatchesOf(city, zones, k) ==
    IF k > Len(zones) THEN <<>>
    ELSE (IF intersects(city, zones[k]) THEN <<JoinedRow(city, zones[k])>>
          ELSE <<>>) \o MatchesOf(city, zones, k + 1)

FirstMatchOf(city, zones) ==
    IF MatchesOf(city, zones, 1) = <<>> THEN <<>>
    ELSE <<Head(MatchesOf(city, zones, 1))>>

RECURSIVE sjoin_loop(_, _, _)
sjoin_loop(cities, zones, j) ==
    IF j > Len(cities) THEN <<>>
    ELSE MatchesOf(cities[j], zones, 1) \o sjoin_loop(cities, zones, j + 1)

RECURSIVE sjoin_loop_first(_, _, _)
sjoin_loop_first(cities, zones, j) ==
    IF j > Len(cities) THEN <<>>
    ELSE FirstMatchOf(cities[j], zones) \o sjoin_loop_first(cities, zones, j + 1)

sjoin_first_match(cities, zones) == sjoin_loop_first(cities, zones, 1)

\* gpd.sjoin(cities, zones, how="inner", predicate="intersects")
sjoin(cities, zones) == sjoin_loop(cities, zones, 1)

\* --------------------------------------------------------------- the state
VARIABLES quakes_gdf, cities_gdf, min_mag, radius_km,
          pc, steps, sig_quakes, risk_zones, cities_w_risk

vars == <<quakes_gdf, cities_gdf, min_mag, radius_km,
          pc, steps, sig_quakes, risk_zones, cities_w_risk>>

inputs == <<quakes_gdf, cities_gdf, min_mag, radius_km>>

\* Features of the feeds: the title (name) identifies the record.
QuakeFrames ==
    UNION {{q \in [1..n -> [title : 1..n, mag : Magnitudes, lon : Lons]] :
              \A i \in 1..n : q[i].title = i} : n \in 0..MaxEvents}

CityFrames ==
    UNION {{c \in [1..n -> [name : 1..n, lon : Lons]] :
              \A j \in 1..n : c[j].name = j} : n \in 0..MaxPlaces}

Init ==
    /\ quakes_gdf \in QuakeFrames
    /\ cities_gdf \in CityFrames
    /\ min_mag \in MinMagnitudes
    /\ radius_km \in RadiiKm
    /\ pc = "start"
    /\ steps = <<>>
    /\ sig_quakes = <<>>
    /\ risk_zones = <<>>
    /\ cities_w_risk = <<>>

\* lines 97-99
CheckInputs ==
    /\ pc = "start"
    /\ IF InputsUnavailable(quakes_gdf, cities_gdf)
       THEN pc' = "done"
       ELSE pc' = "filter"
    /\ UNCHANGED <<inputs, steps, sig_quakes, risk_zones, cities_w_risk>>

\* lines 101-104
Filter ==
    /\ pc = "filter"
    /\ sig_quakes' = FilterRows(quakes_gdf, min_mag, 1)
    /\ IF sig_quakes' = <<>> THEN pc' = "done" ELSE pc' = "project"
    /\ UNCHANGED <<inputs, steps, risk_zones, cities_w_risk>>

\* line 107
Project ==
    /\ pc = "project"
    /\ sig_quakes' = SetGeometry(sig_quakes,
          [k \in 1..Len(sig_quakes) |->
              {toProjected(lon) : lon \in sig_quakes[k].geometry}])
    /\ steps' = Append(steps, "project")
    /\ pc' = "buffer"
    /\ UNCHANGED <<inputs, risk_zones, cities_w_risk>>

\* line 110
Buffer ==
    /\ pc = "buffer"
    /\ sig_quakes' = SetGeometry(sig_quakes,
          [k \in 1..Len(sig_quakes) |->
              buffer(sig_quakes[k].geometry, BufferDistance(radius_km))])
    /\ steps' = Append(steps, "buffer")
    /\ pc' = "correct"
    /\ UNCHANGED <<inputs, risk_zones, cities_w_risk>>

\* line 113
Correct ==
    /\ pc = "correct"
    /\ sig_quakes' = SetGeometry(sig_quakes,
          handle_antimeridian_buffers(GeometryColumn(sig_quakes)))
    /\ steps' = Append(steps, "correct")
    /\ pc' = "reproject"
    /\ UNCHANGED <<inputs, risk_zones, cities_w_risk>>

\* line 71 where the bounds of an empty geometry are the empty tuple
\* (Shapely 1.x): the unpacking raises, and main (lines 264-267) reports it.
CorrectRaises ==
    /\ pc = "correct"
    /\ \E k \in 1..Len(sig_quakes) : sig_quakes[k].geometry = {}
    /\ steps' = Append(steps, "correct")
    /\ pc' = "raised"
    /\ UNCHANGED <<inputs, sig_quakes, risk_zones, cities_w_risk>>

\* lines 116-117; buffer(0) leaves a set of covered points as it is.
Reproject ==
    /\ pc = "reproject"
    /\ risk_zones' = SetGeometry(sig_quakes,
          [k \in 1..Len(sig_quakes) |-> toGeographic(sig_quakes[k].geometry)])
    /\ steps' = Append(steps, "reproject")
    /\ pc' = "join"
    /\ UNCHANGED <<inputs, sig_quakes, cities_w_risk>>

\* lines 120-124
Join ==
    /\ pc = "join"
    /\ cities_w_risk' = sjoin(cities_gdf, risk_zones)
    /\ steps' = Append(steps, "join")
    /\ pc' = "done"
    /\ UNCHANGED <<inputs, sig_quakes, risk_zones>>

Next ==
    \/ CheckInputs
    \/ Filter
    \/ Project
    \/ Buffer
    \/ Correct
    \/ CorrectRaises
    \/ Reproject
    \/ Join

Spec == Init /\ [][Next]_vars

TypeOK ==
    /\ pc \in {"start", "filter", "project", "buffer", "correct",
               "reproject", "join", "done", "raised"}
    /\ Len(sig_quakes) <= MaxEvents
    /\ Len(risk_zones) <= MaxEvents

\* ------------------------------------------------------------- properties
EmptyInput == quakes_gdf = <<>> \/ cities_gdf = <<>>

Ran == pc \in {"reproject", "join", "done"} /\ steps # <<>>

Returned == pc = "done"

QualifyingIdx == {i \in 1..Len(quakes_gdf) : quakes_gdf[i].mag >= min_mag}

ZoneIdx == {risk_zones[k].idx : k \in 1..Len(risk_zones)}

\* The buffer polygon of event i, as handed to handle_antimeridian_buffers.
BufferOf(i) == buffer({toProjected(quakes_gdf[i].lon)}, BufferDistance(radius_km))

OverflowsEast(geom) == geom # {} /\ Max(geom) > MERCATOR_WORLD_MAX_X
OverflowsWest(geom) == geom # {} /\ Min(geom) < MERCATOR_WORLD_MIN_X
OverflowsBoth(geom) == OverflowsEast(geom) /\ OverflowsWest(geom)
EastOnly(geom) == OverflowsEast(geom) /\ ~OverflowsWest(geom)
WestOnly(geom) == OverflowsWest(geom) /\ ~OverflowsEast(geom)

Mirror(geom) == {-x : x \in geom}

\* The geometry handle_antimeridian_buffers returned for the row k.
Corrected(k) == sig_quakes[k].geometry

CorrectorReturned == pc \in {"reproject", "join", "done"} /\ steps # <<>>

C1_WitnessAboveMax ==
    /\ Returned
    /\ cities_gdf # <<>>
    /\ quakes_gdf # <<>>
    /\ \A i \in 1..Len(quakes_gdf) : quakes_gdf[i].mag < min_mag

\* C2: handle_antimeridian_buffers never returns a geometry for a polygon
\* that exceeds both projection edges.
C2_OversizedRejected ==
    CorrectorReturned =>
        \A k \in 1..Len(sig_quakes) : ~OverflowsBoth(BufferOf(sig_quakes[k].idx))

\* C3: for a polygon exceeding exactly one edge the result is the polygon
\* clipped to [-MAX_X, MAX_X] united with the part beyond the edge moved by
\* one world width to the other side (-W in the east, +W in the west); every
\* point of the polygon is kept, in place or moved, and the west case
\* mirrors the east case.
C3_OneEdgeSplit ==
    CorrectorReturned =>
        \A k \in 1..Len(sig_quakes) :
            LET g == BufferOf(sig_quakes[k].idx)
                clipped == {x \in g : MERCATOR_WORLD_MIN_X <= x /\ x <= MERCATOR_WORLD_MAX_X}
            IN /\ EastOnly(g) =>
                    /\ Corrected(k) = clipped \cup
                          {x - MERCATOR_WIDTH : x \in {p \in g : p >= MERCATOR_WORLD_MAX_X}}
                    /\ \A p \in g : p \in Corrected(k) \/ (p - MERCATOR_WIDTH) \in Corrected(k)
                    /\ correct_one(Mirror(g)) = Mirror(Corrected(k))
               /\ WestOnly(g) =>
                    /\ Corrected(k) = clipped \cup
                          {x + MERCATOR_WIDTH : x \in {p \in g : p <= MERCATOR_WORLD_MIN_X}}
                    /\ \A p \in g : p \in Corrected(k) \/ (p + MERCATOR_WIDTH) \in Corrected(k)
                    /\ correct_one(Mirror(g)) = Mirror(Corrected(k))

C3_Witness ==
    /\ CorrectorReturned
    /\ \E k \in 1..Len(sig_quakes) : EastOnly(BufferOf(sig_quakes[k].idx))
    /\ \E k \in 1..Len(sig_quakes) : WestOnly(BufferOf(sig_quakes[k].idx))

\* C4: a polygon with -MAX_X <= minX and maxX <= MAX_X is returned as it is.
C4_InsideUnchanged ==
    CorrectorReturned =>
        \A k \in 1..Len(sig_quakes) :
            LET g == BufferOf(sig_quakes[k].idx)
            IN (g # {} /\ MERCATOR_WORLD_MIN_X <= Min(g) /\ Max(g) <= MERCATOR_WORLD_MAX_X)
                  => Corrected(k) = g

C4_Witness ==
    /\ CorrectorReturned
    /\ \E k \in 1..Len(sig_quakes) :
          /\ BufferOf(sig_quakes[k].idx) # {}
          /\ Max(BufferOf(sig_quakes[k].idx)) = MERCATOR_WORLD_MAX_X
          /\ Corrected(k) = BufferOf(sig_quakes[k].idx)
    /\ \E k \in 1..Len(sig_quakes) :
          /\ BufferOf(sig_quakes[k].idx) # {}
          /\ Min(BufferOf(sig_quakes[k].idx)) = MERCATOR_WORLD_MIN_X

\* C5: the join holds exactly one record for each (place, zone) pair whose
\* place lies in the zone and no other record.
RecordsOf(j, k) ==
    {r \in 1..Len(cities_w_risk) :
        /\ cities_w_risk[r].name = cities_gdf[j].name
        /\ cities_w_risk[r].index_right = risk_zones[k].idx}

ContainedPairs ==
    {jk \in (1..Len(cities_gdf)) \X (1..Len(risk_zones)) :
        cities_gdf[jk[1]].lon \in risk_zones[jk[2]].geometry}

C5_OneRecordPerPair ==
    (Returned /\ steps # <<>>) =>
        /\ \A j \in 1..Len(cities_gdf) : \A k \in 1..Len(risk_zones) :
              Cardinality(RecordsOf(j, k)) =
                  IF <<j, k>> \in ContainedPairs THEN 1 ELSE 0
        /\ Len(cities_w_risk) = Cardinality(ContainedPairs)
        /\ \A r \in 1..Len(cities_w_risk) :
              \E k \in 1..Len(risk_zones) :
                  /\ cities_w_risk[r].index_right = risk_zones[k].idx
                  /\ cities_w_risk[r].Quake_Magnitude = risk_zones[k].mag
                  /\ cities_w_risk[r].title = risk_zones[k].title

C5_Witness ==
    /\ Returned
    /\ Len(risk_zones) = 2
    /\ \E j \in 1..Len(cities_gdf) :
          /\ <<j, 1>> \in ContainedPairs
          /\ <<j, 2>> \in ContainedPairs
          /\ Cardinality({r \in 1..Len(cities_w_risk) :
                             cities_w_risk[r].name = cities_gdf[j].name}) = 2
    /\ quakes_gdf[risk_zones[1].idx].lon # quakes_gdf[risk_zones[2].idx].lon

\* C6: with radius > 0, a place at the epicentre of a qualifying event is in
\* the impacted places, paired with that event.
C6_EpicentreImpacted ==
    (Returned /\ ~EmptyInput /\ radius_km > 0) =>
        \A i \in QualifyingIdx : \A j \in 1..Len(cities_gdf) :
            cities_gdf[j].lon = quakes_gdf[i].lon =>
                \E r \in 1..Len(cities_w_risk) :
                    /\ cities_w_risk[r].name = cities_gdf[j].name
                    /\ cities_w_risk[r].index_right = i

\* C7: with no events or no places the call returns two empty outputs and
\* runs none of the projection, buffering, correction and join steps.
C7_EmptyInputs ==
    (EmptyInput /\ pc # "start") =>
        /\ pc = "done"
        /\ steps = <<>>
        /\ sig_quakes = <<>>
        /\ risk_zones = <<>>
        /\ cities_w_risk = <<>>

C7_Witness ==
    /\ pc = "done"
    /\ cities_gdf = <<>>
    /\ QualifyingIdx # {}
    /\ radius_km > 0

\* C8: a radius <= 0 is rejected before any geometry is built: the buffer
\* step never runs and no zone and no record comes out.
C8_InvalidRadiusRejected ==
    radius_km <= 0 =>
        /\ \A s \in 1..Len(steps) : steps[s] # "buffer"
        /\ risk_zones = <<>>
        /\ cities_w_risk = <<>>

\* C9: an event whose processing fails (radius <= 0, buffer over both
\* edges) is skipped, every other qualifying event has its zone, and the
\* analysis is never aborted.
FailingIdx ==
    {i \in QualifyingIdx : radius_km <= 0 \/ OverflowsBoth(BufferOf(i))}

C9_FailedEventSkipped ==
    /\ pc # "raised"
    /\ (Returned /\ ~EmptyInput)
          => ZoneIdx = QualifyingIdx \ FailingIdx

\* C10: one zone per qualifying event, in the order of the events, each
\* with the magnitude and the title of its event and with the corrected
\* buffer of that event's position.
RECURSIVE SortedIdx(_)
SortedIdx(S) ==
    IF S = {} THEN <<>> ELSE <<Min(S)>> \o SortedIdx(S \ {Min(S)})

C10_ZonePerEventInOrder ==
    /\ CorrectorReturned =>
          /\ Len(sig_quakes) = Cardinality(QualifyingIdx)
          /\ \A k \in 1..Len(sig_quakes) :
                Corrected(k) = correct_one(BufferOf(sig_quakes[k].idx))
    /\ (Returned /\ steps # <<>>) =>
          /\ Len(risk_zones) = Cardinality(QualifyingIdx)
          /\ \A k \in 1..Len(risk_zones) :
                /\ risk_zones[k].idx = SortedIdx(QualifyingIdx)[k]
                /\ risk_zones[k].mag = quakes_gdf[risk_zones[k].idx].mag
                /\ risk_zones[k].title = quakes_gdf[risk_zones[k].idx].title
                /\ risk_zones[k].geometry =
                      toGeographic(correct_one(BufferOf(risk_zones[k].idx)))

C10_Witness ==
    /\ Returned
    /\ Len(risk_zones) = 2
    /\ EastOnly(BufferOf(risk_zones[1].idx))
    /\ ~OverflowsEast(BufferOf(risk_zones[2].idx))
    /\ ~OverflowsWest(BufferOf(risk_zones[2].idx))
    /\ risk_zones[1].mag # risk_zones[2].mag
    /\ risk_zones[1].geometry # risk_zones[2].geometry
====
